---- MODULE Spec2Model ----
(***************************************************************************)
(* Model of the syros coordination core.                                   *)
(*                                                                         *)
(* LockManager (src/src/core/lock_manager.rs): keyed leases kept in a      *)
(* key-value store; acquire is one SET NX PX command, release is one       *)
(* scripted compare-and-delete, status is a GET followed by a TTL.         *)
(*                                                                         *)
(* Time is wall-clock milliseconds and advances in steps of 250 ms.        *)
(*                                                                         *)
(* SagaOrchestrator (src/src/core/saga_orchestrator.rs): start_saga        *)
(* inserts a row into the sagas table and spawns a task running            *)
(* execute_saga; every query is one step of that task and may fail.        *)
(***************************************************************************)
EXTENDS Integers, Sequences, FiniteSets, TLC

\* ---------------------------------------------------------------- bounds
\* number of 250 ms clock steps explored
MaxTicks == 1
\* number of calls the clients make
MaxCalls == 3
\* number of sagas started
MaxSagas == 1
\* number of steps of a saga
MaxSteps == 2
\* number of direct calls of execute_saga (besides the spawned runs)
MaxDirect == 1

\* number of append_event calls
MaxAppends == 2

\* number of calls on the ApiKeyManager
MaxApiCalls == 3
\* number of days the ApiKeyManager's clock advances
MaxApiTicks == 1

\* number of users create_user makes
MaxUsers == 1

\* number of set calls on the cache
MaxSets == 2
\* number of 250 ms steps of the cache's clock
MaxCacheTicks == 1

\* ------------------------------------------------------------ value sets
Clients == {"A", "B", "C"}
Keys == {"K1"}
\* LockRequest.ttl in milliseconds (ttl.as_millis())
Ttls == {250, 500}
\* LockRequest.wait_timeout in milliseconds; 0 stands for None
Waits == {0, 250}

\* LockResponse.lock_id of a failed acquire: String::new()
EmptyId == 0
\* the value of a key that holds nothing (GET returns nil)
NoLock == [id |-> EmptyId, expires |-> 0]

VARIABLES
    now,     \* wall clock, ms
    locks,   \* the key-value store: key -> [id, expires]
    issued,  \* the leases handed out: lock_id -> the LockRequest it answered
    pc,      \* per client: position in its current call
    req,     \* per client: the request of its current or last call
    resp,    \* per client: the response of its last completed call
    got,     \* per client: get_lock_status's local `lock_id` (result of GET)
    calls,   \* number of calls made so far
    sagas,   \* the sagas table: saga id -> [name, status, current_step, steps]
    starting,\* start_saga calls between their INSERT and the spawn
    tasks,   \* the runs of execute_saga: [saga, direct, pc, step_index, steps_count,
             \* result], with the execute_step and compensate_step calls each made
    requests,\* the SagaRequest of each start_saga call that reached the store
    cancelled,\* start_saga calls dropped after their INSERT
    sresp,   \* the last response of get_saga_status or of the compensateSaga mutation
    events,  \* the events table: the committed rows, in commit order
    appends, \* the calls of append_event: [req, pc, version, result, at]
    eresp,   \* the last response of get_events, get_stream_version or cleanup_old_events
    returned,\* the rows get_events has returned so far
    cache,   \* the HashMap of the cache: key -> [value, expires_at, tags, created_at]
    ctime,   \* the cache's wall clock, ms
    csets,   \* the set calls that have built their entry and wait for the write lock
    nsets,   \* number of set calls made so far
    cresp,   \* the last response of a cache operation
    latest,  \* per key: what the most recent set stored, the entry it replaced, and
             \* whether a delete or an invalidation has removed it since
    api_keys,   \* ApiKeyManager.keys: id -> [key, is_active, expires_at, usage_count,
                \* last_used_at]
    key_to_id,  \* ApiKeyManager.key_to_id: key -> id
    keys_lock,  \* the RwLock of keys: [readers, writer, queue]
    ids_lock,   \* the RwLock of key_to_id: [readers, writer, queue]
    api_calls,  \* the calls on the ApiKeyManager: [op, arg, pc, result]
    api_time,   \* the wall clock the ApiKeyManager reads, days
    users,      \* RBACManager.users: user id -> [roles, permissions, is_active]
    roles,      \* RBACManager.roles: role -> the permissions of its RoleDefinition
    rbac_resp,  \* the last result of an RBACManager call
    granted     \* per user: the permissions add_user_permission gave and
                \* remove_user_permission has not taken back

lockVars == <<now, locks, issued, pc, req, resp, got, calls>>
sagaVars == <<sagas, starting, tasks, requests, cancelled, sresp>>
eventVars == <<events, appends, eresp, returned>>
cacheVars == <<cache, ctime, csets, nsets, cresp, latest>>
apiVars == <<api_keys, key_to_id, keys_lock, ids_lock, api_calls, api_time>>
rbacVars == <<users, roles, rbac_resp, granted>>
authVars == <<apiVars, rbacVars>>
vars == <<now, locks, issued, pc, req, resp, got, calls, sagas, starting, tasks,
          requests, cancelled, sresp, events, appends, eresp, returned,
          cache, ctime, csets, nsets, cresp, latest,
          api_keys, key_to_id, keys_lock, ids_lock, api_calls, api_time,
          users, roles, rbac_resp, granted>>

\* `elapsed` is the time since the call was made, saturating at the largest
\* wait_timeout; `free` tells whether the key was free when the call was made
NoReq == [op |-> "none", key |-> "K1", ttl |-> 0, wait |-> 0, lock_id |-> EmptyId,
          elapsed |-> 0, free |-> FALSE]
NoResp == [kind |-> "none", success |-> FALSE, lock_id |-> EmptyId, owner |-> "",
           key |-> "", acquired_at |-> 0, expires_at |-> 0]

\* ------------------------------------------------------ the store (Redis)
\* a key exists while its expiry lies in the future
Exists(k) == locks[k].id # EmptyId /\ now < locks[k].expires

\* GET key
Get(k) == IF Exists(k) THEN locks[k].id ELSE EmptyId

\* TTL key: remaining time rounded to seconds, -2 when the key does not exist
Ttl(k) == IF Exists(k) THEN (locks[k].expires - now + 500) \div 1000 ELSE 0 - 2

\* SET without NX: writes whether or not the key exists
SetPx(k, id, ttl_ms) ==
    [locks EXCEPT ![k] = [id |-> id, expires |-> now + ttl_ms]]

\* SET NX EX given milliseconds: the expiry is taken as seconds
SetNxEx(k, id, ttl_ms) ==
    IF Exists(k) THEN locks
    ELSE [locks EXCEPT ![k] = [id |-> id, expires |-> now + ttl_ms * 1000]]

\* SET key id NX PX ttl_ms: writes only when the key does not exist
SetNxPx(k, id, ttl_ms) ==
    IF Exists(k) THEN locks
    ELSE [locks EXCEPT ![k] = [id |-> id, expires |-> now + ttl_ms]]

\* DEL key without the comparison
Delete(k, id) ==
    IF Exists(k) THEN [locks EXCEPT ![k] = NoLock] ELSE locks

\* the comparison without the DEL
CompareOnly(k, id) == locks

\* if GET key == id then DEL key else 0
CompareAndDelete(k, id) ==
    IF Get(k) = id /\ id # EmptyId THEN [locks EXCEPT ![k] = NoLock] ELSE locks

\* --------------------------------------------------------- ghost helpers
\* a lease handed out by a successful acquire and neither released nor expired
Active(i) == ~issued[i].released /\ now < issued[i].expires_at
ActiveOn(k) == {i \in DOMAIN issued : issued[i].key = k /\ Active(i)}

\* current_step of a row nobody has written it to: SQL NULL
NullStep == 0 - 1

\* the response of the last get_saga_status or compensateSaga call
NoSagaResp == [op |-> "none", saga_id |-> 0, result |-> "none", name |-> "",
               status |-> "", current_step |-> NullStep]

\* an absent from_version or limit
NoneArg == 0 - 1

\* the response of the last read call on the event store
NoEventResp == [op |-> "none", stream_id |-> "", from |-> NoneArg, limit |-> NoneArg,
                result |-> "none", events |-> <<>>, version |-> 0]

\* CacheRequest.ttl = None and CacheEntry.expires_at = None
NoTtl == 0 - 1
NoExpiry == 0 - 1

\* a set that found no entry under its key replaced nothing
NoOver == [value |-> 0, expires_at |-> 0 - 1, tags |-> {}]

\* the response of the last cache operation
NoCacheResp == [op |-> "none", key |-> "", tag |-> "", found |-> FALSE, value |-> 0,
                success |-> FALSE, count |-> 0, total |-> 0, expired |-> 0,
                active |-> 0]

\* an RwLock nobody holds or waits for
NoHolder == [readers |-> {}, writer |-> 0, queue |-> <<>>]

\* the Permission variants the model follows
Permissions == {"LockCreate", "LockRead", "AdminUsers"}

\* Role: the system roles and one Role::Custom(name)
SystemRoles == {"Admin", "Manager", "Developer", "Viewer"}
Roles == SystemRoles \cup {"Custom"}

\* Role::get_permissions, over the permissions above
get_permissions(role) ==
    CASE role = "Admin" -> {"LockCreate", "LockRead", "AdminUsers"}
      [] role = "Manager" -> {"LockCreate", "LockRead"}
      [] role = "Developer" -> {"LockCreate", "LockRead"}
      [] role = "Viewer" -> {"LockRead"}
      [] OTHER -> {}

\* the result of the last RBACManager call
NoRbacResp == [op |-> "none", user_id |-> 0, permission |-> "", result |-> "none"]

\* ------------------------------------------------------------------ Init
Init ==
    /\ now = 0
    /\ locks = [k \in Keys |-> NoLock]
    /\ issued = <<>>
    /\ pc = [c \in Clients |-> "idle"]
    /\ req = [c \in Clients |-> NoReq]
    /\ resp = [c \in Clients |-> NoResp]
    /\ got = [c \in Clients |-> EmptyId]
    /\ calls = 0
    /\ sagas = <<>>
    /\ starting = {}
    /\ tasks = <<>>
    /\ requests = <<>>
    /\ cancelled = {}
    /\ sresp = NoSagaResp
    /\ events = <<>>
    /\ appends = <<>>
    /\ eresp = NoEventResp
    /\ returned = {}
    /\ cache = <<>>
    /\ ctime = 0
    /\ csets = {}
    /\ nsets = 0
    /\ cresp = NoCacheResp
    /\ latest = <<>>
    /\ api_keys = <<>>
    /\ key_to_id = <<>>
    /\ keys_lock = NoHolder
    /\ ids_lock = NoHolder
    /\ api_calls = <<>>
    /\ api_time = 0
    /\ users = <<>>
    /\ roles = [r \in SystemRoles |-> get_permissions(r)]
    /\ rbac_resp = NoRbacResp
    /\ granted = <<>>

\* --------------------------------------------------------------- clients
\* client c makes a call; req and resp keep the calls in flight and the responses
\* returned since the last call was made
Call(c, r) ==
    /\ req' = [x \in Clients |-> IF x = c THEN r ELSE IF pc[x] = "idle" THEN NoReq ELSE req[x]]
    /\ resp' = [x \in Clients |-> IF x = c \/ pc[x] = "idle" THEN NoResp ELSE resp[x]]

\* a client sends LockRequest { key, ttl, owner: c, wait_timeout }
CallAcquire(c) ==
    /\ pc[c] = "idle"
    /\ calls < MaxCalls
    /\ calls' = calls + 1
    /\ \E k \in Keys, t \in Ttls, w \in Waits :
         Call(c, [op |-> "acquire", key |-> k, ttl |-> t, wait |-> w,
                  lock_id |-> EmptyId, elapsed |-> 0, free |-> ~Exists(k)])
    /\ pc' = [pc EXCEPT ![c] = "acquire"]
    /\ UNCHANGED <<now, locks, issued, got, sagaVars, eventVars, cacheVars, authVars>>

\* a client sends ReleaseLockRequest { key, lock_id, owner: c }
CallRelease(c) ==
    /\ pc[c] = "idle"
    /\ calls < MaxCalls
    /\ calls' = calls + 1
    /\ \E k \in Keys, i \in 0..Len(issued) :
         Call(c, [op |-> "release", key |-> k, ttl |-> 0, wait |-> 0,
                  lock_id |-> i, elapsed |-> 0, free |-> FALSE])
    /\ pc' = [pc EXCEPT ![c] = "release"]
    /\ UNCHANGED <<now, locks, issued, got, sagaVars, eventVars, cacheVars, authVars>>

\* a client asks get_lock_status(key)
CallStatus(c) ==
    /\ pc[c] = "idle"
    /\ calls < MaxCalls
    /\ calls' = calls + 1
    /\ \E k \in Keys :
         Call(c, [op |-> "status", key |-> k, ttl |-> 0, wait |-> 0,
                  lock_id |-> EmptyId, elapsed |-> 0, free |-> FALSE])
    /\ pc' = [pc EXCEPT ![c] = "status_get"]
    /\ UNCHANGED <<now, locks, issued, got, sagaVars, eventVars, cacheVars, authVars>>

\* ----------------------------------------------------------- LockManager
Return(c, r) ==
    /\ resp' = [resp EXCEPT ![c] = r]
    /\ pc' = [pc EXCEPT ![c] = "idle"]

\* the connection or a store command fails before the store runs it: the call
\* returns Err(StorageError), nothing is written
StorageError(c) ==
    /\ pc[c] \in {"acquire", "release", "status_get", "status_ttl"}
    /\ Return(c, [NoResp EXCEPT !.kind = "error"])
    /\ UNCHANGED <<now, locks, issued, req, got, calls, sagaVars, eventVars, cacheVars, authVars>>

\* acquire_lock that does not look at the SET's reply
acquire_lock_unchecked(c) ==
    /\ pc[c] = "acquire"
    /\ locks' = SetNxPx(req[c].key, Len(issued) + 1, req[c].ttl)
    /\ issued' = Append(issued, [key |-> req[c].key, owner |-> c, acquired_at |-> now,
                                 expires_at |-> now + req[c].ttl, released |-> FALSE])
    /\ Return(c, [NoResp EXCEPT !.kind = "ok", !.success = TRUE,
                                !.lock_id = Len(issued) + 1])
    /\ UNCHANGED <<now, req, got, calls, sagaVars, eventVars, cacheVars, authVars>>

\* an acquire_lock that, refused on a held key, still sets the key's expiry to
\* its own TTL
acquire_lock_extends(c) ==
    /\ pc[c] = "acquire"
    /\ LET k == req[c].key
           lock_id == Len(issued) + 1
           result == SetNxPx(k, lock_id, req[c].ttl)
       IN IF result # locks
          THEN /\ locks' = result
               /\ issued' = Append(issued, [key |-> k, owner |-> c, acquired_at |-> now,
                                            expires_at |-> now + req[c].ttl,
                                            released |-> FALSE])
               /\ Return(c, [NoResp EXCEPT !.kind = "ok", !.success = TRUE,
                                           !.lock_id = lock_id])
          ELSE /\ locks' = [locks EXCEPT ![k].expires = now + req[c].ttl]
               /\ Return(c, [NoResp EXCEPT !.kind = "ok", !.success = FALSE,
                                           !.lock_id = EmptyId])
               /\ UNCHANGED issued
    /\ UNCHANGED <<now, req, got, calls, sagaVars, eventVars, cacheVars, authVars>>

\* acquire_lock: SET lock_key lock_id NX PX ttl_ms, then the response
\* (result.is_some() exactly when the SET wrote the key)
acquire_lock(c) ==
    /\ pc[c] = "acquire"
    /\ LET k == req[c].key
           lock_id == Len(issued) + 1
           result == SetNxPx(k, lock_id, req[c].ttl)
       IN /\ locks' = result
          /\ IF result # locks
             THEN /\ issued' = Append(issued, [key |-> k, owner |-> c, acquired_at |-> now,
                                               expires_at |-> now + req[c].ttl,
                                               released |-> FALSE])
                  /\ Return(c, [NoResp EXCEPT !.kind = "ok", !.success = TRUE,
                                              !.lock_id = lock_id])
             ELSE /\ Return(c, [NoResp EXCEPT !.kind = "ok", !.success = FALSE,
                                              !.lock_id = EmptyId])
                  /\ UNCHANGED issued
    /\ UNCHANGED <<now, req, got, calls, sagaVars, eventVars, cacheVars, authVars>>

\* release_lock: the compare-and-delete script, then the response
release_lock(c) ==
    /\ pc[c] = "release"
    /\ LET k == req[c].key
           id == req[c].lock_id
           result == IF CompareAndDelete(k, id) # locks THEN 1 ELSE 0
       IN /\ locks' = CompareAndDelete(k, id)
          /\ issued' = IF result = 1
                       THEN [i \in DOMAIN issued |->
                               IF i = Get(k) THEN [issued[i] EXCEPT !.released = TRUE]
                               ELSE issued[i]]
                       ELSE issued
          /\ Return(c, [NoResp EXCEPT !.kind = "ok", !.success = (result = 1)])
    /\ UNCHANGED <<now, req, got, calls, sagaVars, eventVars, cacheVars, authVars>>

\* get_lock_status, first command: GET lock_key
get_lock_status_get(c) ==
    /\ pc[c] = "status_get"
    /\ LET id == Get(req[c].key)
       IN IF id # EmptyId
          THEN /\ got' = [got EXCEPT ![c] = id]
               /\ pc' = [pc EXCEPT ![c] = "status_ttl"]
               /\ UNCHANGED resp
          ELSE /\ Return(c, [NoResp EXCEPT !.kind = "ok", !.success = FALSE])
               /\ UNCHANGED got
    /\ UNCHANGED <<now, locks, issued, req, calls, sagaVars, eventVars, cacheVars, authVars>>

\* get_lock_status, second command: TTL lock_key, then the LockState
get_lock_status_ttl(c) ==
    /\ pc[c] = "status_ttl"
    /\ LET ttl == Ttl(req[c].key)
           expires_at == now + ttl * 1000
       IN Return(c, [kind |-> "ok", success |-> TRUE, lock_id |-> got[c],
                     owner |-> "unknown", key |-> req[c].key,
                     acquired_at |-> now, expires_at |-> expires_at])
    /\ got' = [got EXCEPT ![c] = EmptyId]
    /\ UNCHANGED <<now, locks, issued, req, calls, sagaVars, eventVars, cacheVars, authVars>>

\* the wall clock advances
Tick ==
    /\ now < MaxTicks * 250
    /\ now' = now + 250
    /\ req' = [c \in Clients |->
                 IF req[c].op = "acquire" THEN [req[c] EXCEPT !.elapsed = 250] ELSE req[c]]
    /\ UNCHANGED <<locks, issued, pc, resp, got, calls, sagaVars, eventVars, cacheVars, authVars>>

LockNext ==
    \/ Tick
    \/ \E c \in Clients :
         \/ CallAcquire(c)
         \/ CallRelease(c)
         \/ CallStatus(c)
         \/ StorageError(c)
         \/ acquire_lock(c)
         \/ release_lock(c)
         \/ get_lock_status_get(c)
         \/ get_lock_status_ttl(c)

LockSpec == Init /\ [][LockNext]_vars

\* ------------------------------------------------------ SagaOrchestrator
\* SagaRequest.name
Names == {"s", "t"}
\* SagaStep.retry_policy as its max_retries; 0 stands for None
Retries == {0, 1}
\* SagaRequest.steps: each step is given by its retry policy
StepLists == UNION {[1..n -> Retries] : n \in 0..MaxSteps}

\* the positions of execute_saga (and of compensate_saga inside it) at which a
\* query is awaited
QueryPcs == {"update_running", "count_steps", "step_update", "update_completed",
             "comp_update", "comp_count", "comp_update_done"}

SetTask(t, r) == tasks' = [tasks EXCEPT ![t] = r]
SetStatus(s, st) == sagas' = [sagas EXCEPT ![s].status = st]

\* a run of execute_saga at its first statement
NewTask(s, d) == [saga |-> s, direct |-> d, pc |-> "update_running",
                  step_index |-> 0, steps_count |-> 0, result |-> "running",
                  invoked |-> <<>>, compensated |-> <<>>]

\* the INSERT binding another status than "Pending"
InsertRunning(row) ==
    /\ sagas' = Append(sagas, [row EXCEPT !.status = "Running"])
    /\ starting' = starting \cup {Len(sagas) + 1}

\* start_saga with the row written as `row`
InsertRow(row) ==
    /\ sagas' = Append(sagas, row)
    /\ starting' = starting \cup {Len(sagas) + 1}

\* start_saga up to its INSERT: the row is stored with status Pending
start_saga_insert ==
    /\ Len(sagas) < MaxSagas
    /\ \E nm \in Names, st \in StepLists :
         /\ InsertRow([name |-> nm, status |-> "Pending", current_step |-> NullStep,
                       steps |-> st])
         /\ requests' = Append(requests, [name |-> nm, steps |-> st])
    /\ UNCHANGED <<tasks, cancelled, sresp, lockVars, eventVars, cacheVars, authVars>>

\* start_saga after the INSERT: tokio::spawn of execute_saga, then the response
start_saga_spawn(s) ==
    /\ s \in starting
    /\ starting' = starting \ {s}
    /\ tasks' = Append(tasks, NewTask(s, FALSE))
    /\ UNCHANGED <<sagas, requests, cancelled, sresp, lockVars, eventVars, cacheVars, authVars>>

\* the caller drops the start_saga future while it awaits the INSERT the store
\* has already committed: nothing after the await runs
start_saga_cancel(s) ==
    /\ s \in starting
    /\ starting' = starting \ {s}
    /\ cancelled' = cancelled \cup {s}
    /\ UNCHANGED <<sagas, tasks, requests, sresp, lockVars, eventVars, cacheVars, authVars>>

\* execute_saga is public: a direct call for a saga whose id start_saga returned
call_execute_saga(s) ==
    /\ s \in DOMAIN sagas
    /\ s \notin starting \cup cancelled
    /\ Cardinality({t \in DOMAIN tasks : tasks[t].direct}) < MaxDirect
    /\ tasks' = Append(tasks, NewTask(s, TRUE))
    /\ UNCHANGED <<sagas, starting, requests, cancelled, sresp, lockVars, eventVars, cacheVars, authVars>>

\* execute_saga: UPDATE sagas SET status = 'Running'
execute_saga_running(t) ==
    /\ t \in DOMAIN tasks
    /\ tasks[t].pc = "update_running"
    /\ SetStatus(tasks[t].saga, "Running")
    /\ SetTask(t, [tasks[t] EXCEPT !.pc = "count_steps"])
    /\ UNCHANGED <<starting, requests, cancelled, sresp, lockVars, eventVars, cacheVars, authVars>>

\* execute_saga: get_saga_steps_count, then the head of the step loop
execute_saga_count(t) ==
    /\ t \in DOMAIN tasks
    /\ tasks[t].pc = "count_steps"
    /\ LET n == Len(sagas[tasks[t].saga].steps)
       IN SetTask(t, [tasks[t] EXCEPT !.steps_count = n, !.step_index = 0,
                                      !.pc = IF n > 0 THEN "step_update"
                                             ELSE "update_completed"])
    /\ UNCHANGED <<sagas, starting, requests, cancelled, sresp, lockVars, eventVars, cacheVars, authVars>>

\* execute_step: UPDATE sagas SET current_step = step_index
execute_step_update(t) ==
    /\ t \in DOMAIN tasks
    /\ tasks[t].pc = "step_update"
    /\ sagas' = [sagas EXCEPT ![tasks[t].saga].current_step = tasks[t].step_index]
    /\ SetTask(t, [tasks[t] EXCEPT !.pc = "step_sleep"])
    /\ UNCHANGED <<starting, requests, cancelled, sresp, lockVars, eventVars, cacheVars, authVars>>

\* execute_step: the sleep, Ok(()), and the next turn of the step loop
execute_step_done(t) ==
    /\ t \in DOMAIN tasks
    /\ tasks[t].pc = "step_sleep"
    /\ LET i == tasks[t].step_index + 1
       IN SetTask(t, [tasks[t] EXCEPT
                        !.step_index = i,
                        !.invoked = Append(@, [step |-> tasks[t].step_index, ok |-> TRUE]),
                        !.pc = IF i < tasks[t].steps_count THEN "step_update"
                               ELSE "update_completed"])
    /\ UNCHANGED <<sagas, starting, requests, cancelled, sresp, lockVars, eventVars, cacheVars, authVars>>

\* execute_saga: UPDATE sagas SET status = 'Completed', then Ok(())
execute_saga_completed(t) ==
    /\ t \in DOMAIN tasks
    /\ tasks[t].pc = "update_completed"
    /\ SetStatus(tasks[t].saga, "Completed")
    /\ SetTask(t, [tasks[t] EXCEPT !.pc = "done", !.result = "ok"])
    /\ UNCHANGED <<starting, requests, cancelled, sresp, lockVars, eventVars, cacheVars, authVars>>

\* compensate_saga: UPDATE sagas SET status = 'Compensating'
compensate_saga_update(t) ==
    /\ t \in DOMAIN tasks
    /\ tasks[t].pc = "comp_update"
    /\ SetStatus(tasks[t].saga, "Compensating")
    /\ SetTask(t, [tasks[t] EXCEPT !.pc = "comp_count"])
    /\ UNCHANGED <<starting, requests, cancelled, sresp, lockVars, eventVars, cacheVars, authVars>>

\* compensate_saga: get_saga_steps_count, then the head of the reversed loop
compensate_saga_count(t) ==
    /\ t \in DOMAIN tasks
    /\ tasks[t].pc = "comp_count"
    /\ LET n == Len(sagas[tasks[t].saga].steps)
       IN SetTask(t, [tasks[t] EXCEPT !.steps_count = n, !.step_index = n - 1,
                                      !.pc = IF n > 0 THEN "comp_step"
                                             ELSE "comp_update_done"])
    /\ UNCHANGED <<sagas, starting, requests, cancelled, sresp, lockVars, eventVars, cacheVars, authVars>>

\* compensate_step: the sleep, Ok(()), and the next turn of the reversed loop
compensate_step(t) ==
    /\ t \in DOMAIN tasks
    /\ tasks[t].pc = "comp_step"
    /\ LET i == tasks[t].step_index - 1
       IN SetTask(t, [tasks[t] EXCEPT
                        !.step_index = i,
                        !.compensated = Append(@, tasks[t].step_index),
                        !.pc = IF i >= 0 THEN "comp_step"
                               ELSE "comp_update_done"])
    /\ UNCHANGED <<sagas, starting, requests, cancelled, sresp, lockVars, eventVars, cacheVars, authVars>>

\* compensate_saga: UPDATE sagas SET status = 'Compensated'; execute_saga then
\* returns the step's error
compensate_saga_done(t) ==
    /\ t \in DOMAIN tasks
    /\ tasks[t].pc = "comp_update_done"
    /\ SetStatus(tasks[t].saga, "Compensated")
    /\ SetTask(t, [tasks[t] EXCEPT !.pc = "done", !.result = "err"])
    /\ UNCHANGED <<starting, requests, cancelled, sresp, lockVars, eventVars, cacheVars, authVars>>

\* a query fails with StorageError and writes nothing: in execute_step the
\* error starts compensate_saga, anywhere else `?` ends execute_saga with it
query_fails(t) ==
    /\ t \in DOMAIN tasks
    /\ tasks[t].pc \in QueryPcs
    /\ IF tasks[t].pc = "step_update"
       THEN SetTask(t, [tasks[t] EXCEPT
                          !.invoked = Append(@, [step |-> tasks[t].step_index,
                                                 ok |-> FALSE]),
                          !.pc = "comp_update"])
       ELSE SetTask(t, [tasks[t] EXCEPT !.pc = "done", !.result = "err"])
    /\ UNCHANGED <<sagas, starting, requests, cancelled, sresp, lockVars, eventVars, cacheVars, authVars>>

\* get_saga_status: SELECT ... WHERE id = $1, fetch_optional
get_saga_status(s) ==
    /\ sresp' = IF s \in DOMAIN sagas
                THEN [op |-> "status", saga_id |-> s, result |-> "some",
                      name |-> sagas[s].name, status |-> sagas[s].status,
                      current_step |-> sagas[s].current_step]
                ELSE [NoSagaResp EXCEPT !.op = "status", !.saga_id = s]
    /\ UNCHANGED <<sagas, starting, tasks, requests, cancelled, lockVars, eventVars, cacheVars, authVars>>

\* get_saga_status: the SELECT fails with StorageError
get_saga_status_fails(s) ==
    /\ sresp' = [NoSagaResp EXCEPT !.op = "status", !.saga_id = s, !.result = "err"]
    /\ UNCHANGED <<sagas, starting, tasks, requests, cancelled, lockVars, eventVars, cacheVars, authVars>>

\* the compensateSaga mutation: answers success = true, touches nothing
mutation_compensate_saga(s) ==
    /\ sresp' = [NoSagaResp EXCEPT !.op = "compensate", !.saga_id = s,
                                   !.result = "success"]
    /\ UNCHANGED <<sagas, starting, tasks, requests, cancelled, lockVars, eventVars, cacheVars, authVars>>

SagaNext ==
    \/ start_saga_insert
    \/ \E s \in 1..MaxSagas :
         \/ start_saga_spawn(s)
         \/ start_saga_cancel(s)
         \/ call_execute_saga(s)
         \/ get_saga_status(s)
         \/ get_saga_status_fails(s)
         \/ mutation_compensate_saga(s)
    \/ \E t \in 1..(MaxSagas + MaxDirect) :
         \/ execute_saga_running(t)
         \/ execute_saga_count(t)
         \/ execute_step_update(t)
         \/ execute_step_done(t)
         \/ execute_saga_completed(t)
         \/ compensate_saga_update(t)
         \/ compensate_saga_count(t)
         \/ compensate_step(t)
         \/ compensate_saga_done(t)
         \/ query_fails(t)

SagaSpec == Init /\ [][SagaNext]_vars

\* the runtime runs every spawned or called task on, and a caller that is not
\* cancelled gets its response
SagaFairSpec ==
    /\ SagaSpec
    /\ \A s \in 1..MaxSagas : WF_vars(start_saga_spawn(s))
    /\ \A t \in 1..(MaxSagas + MaxDirect) :
         /\ WF_vars(execute_saga_running(t))
         /\ WF_vars(execute_saga_count(t))
         /\ WF_vars(execute_step_update(t))
         /\ WF_vars(execute_step_done(t))
         /\ WF_vars(execute_saga_completed(t))
         /\ WF_vars(compensate_saga_update(t))
         /\ WF_vars(compensate_saga_count(t))
         /\ WF_vars(compensate_step(t))
         /\ WF_vars(compensate_saga_done(t))

\* ------------------------------------------------------------ EventStore
\* EventRequest.stream_id
Streams == {"S", "T"}
\* the EventRequests the callers send; metadata is None or Some(map), and
\* Json(None) is written as the JSON value null
Requests == {[stream_id |-> "S", event_type |-> "a", data |-> 0, metadata |-> "map"],
             [stream_id |-> "S", event_type |-> "b", data |-> 1, metadata |-> "null"],
             [stream_id |-> "T", event_type |-> "a", data |-> 1, metadata |-> "map"]}
FromVersions == {NoneArg, 2}
Limits == {NoneArg, 1}

\* the rows of a stream that are committed
RowsOf(st) == {i \in DOMAIN events : events[i].stream_id = st}

\* SELECT COALESCE(MAX(version), 0) FROM events WHERE stream_id = st
MaxVersion(st) ==
    IF RowsOf(st) = {} THEN 0
    ELSE CHOOSE v \in {events[i].version : i \in RowsOf(st)} :
             \A i \in RowsOf(st) : events[i].version <= v

\* MAX(version) + 2: a version is left out
SkipVersion(st) == MaxVersion(st) + 2

\* MAX(version) without COALESCE(.., 0) + 1 on an empty stream
MaxOrOne(st) == IF RowsOf(st) = {} THEN 0 ELSE MaxVersion(st) + 1

\* SELECT COALESCE(MAX(version), 0) + 1 FROM events WHERE stream_id = st
NextVersion(st) == MaxVersion(st) + 1

\* the row append call a inserts
RowOf(a) == [id |-> a, stream_id |-> appends[a].req.stream_id,
             event_type |-> appends[a].req.event_type,
             data |-> appends[a].req.data,
             metadata |-> appends[a].req.metadata,
             version |-> appends[a].version]

\* no index: an INSERT never conflicts
NoIndex(a) == FALSE

\* the unique index on (stream_id, version): a committed row has the key of
\* call a's row
Conflicts(a) ==
    \E i \in DOMAIN events :
        /\ events[i].stream_id = appends[a].req.stream_id
        /\ events[i].version = appends[a].version

\* the unique index on (stream_id, version): another transaction has inserted
\* the key of call a's row and is not yet committed or rolled back, so the
\* INSERT of a waits for it
Blocked(a) ==
    \E b \in DOMAIN appends :
        /\ b # a
        /\ appends[b].pc = "commit"
        /\ appends[b].req.stream_id = appends[a].req.stream_id
        /\ appends[b].version = appends[a].version

SetAppend(a, r) == appends' = [appends EXCEPT ![a] = r]

\* a caller calls append_event(request)
call_append_event ==
    /\ Len(appends) < MaxAppends
    /\ \E r \in Requests :
         appends' = Append(appends, [req |-> r, pc |-> "begin", version |-> 0,
                                     result |-> "running", at |-> "none"])
    /\ UNCHANGED <<events, eresp, returned, lockVars, sagaVars, cacheVars, authVars>>

\* append_event: pool.begin()
append_event_begin(a) ==
    /\ a \in DOMAIN appends
    /\ appends[a].pc = "begin"
    /\ SetAppend(a, [appends[a] EXCEPT !.pc = "select"])
    /\ UNCHANGED <<events, eresp, returned, lockVars, sagaVars, cacheVars, authVars>>

\* append_event: the version read inside the transaction
append_event_select(a) ==
    /\ a \in DOMAIN appends
    /\ appends[a].pc = "select"
    /\ SetAppend(a, [appends[a] EXCEPT !.pc = "insert",
                                       !.version = NextVersion(appends[a].req.stream_id)])
    /\ UNCHANGED <<events, eresp, returned, lockVars, sagaVars, cacheVars, authVars>>

\* append_event: the INSERT; a duplicate key ends the call with StorageError
\* and the dropped transaction rolls back
append_event_insert(a) ==
    /\ a \in DOMAIN appends
    /\ appends[a].pc = "insert"
    /\ ~Blocked(a)
    /\ IF Conflicts(a)
       THEN SetAppend(a, [appends[a] EXCEPT !.pc = "done", !.result = "conflict",
                                            !.at = "insert"])
       ELSE SetAppend(a, [appends[a] EXCEPT !.pc = "commit"])
    /\ UNCHANGED <<events, eresp, returned, lockVars, sagaVars, cacheVars, authVars>>

\* append_event: tx.commit(), then Ok(EventResponse)
append_event_commit(a) ==
    /\ a \in DOMAIN appends
    /\ appends[a].pc = "commit"
    /\ events' = Append(events, RowOf(a))
    /\ SetAppend(a, [appends[a] EXCEPT !.pc = "done", !.result = "ok"])
    /\ UNCHANGED <<eresp, returned, lockVars, sagaVars, cacheVars, authVars>>

\* append_event: tx.commit() returns an error although the store has committed
\* (the connection breaks before the acknowledgement arrives)
append_event_commit_lost(a) ==
    /\ a \in DOMAIN appends
    /\ appends[a].pc = "commit"
    /\ events' = Append(events, RowOf(a))
    /\ SetAppend(a, [appends[a] EXCEPT !.pc = "done", !.result = "err", !.at = "commit"])
    /\ UNCHANGED <<eresp, returned, lockVars, sagaVars, cacheVars, authVars>>

\* the INSERT runs on the pool instead of the transaction: it is stored although
\* the call fails
append_event_fails_stored(a) ==
    /\ a \in DOMAIN appends
    /\ appends[a].pc \in {"begin", "select", "insert", "commit"}
    /\ events' = IF appends[a].pc = "insert" /\ ~Conflicts(a)
                 THEN Append(events, RowOf(a)) ELSE events
    /\ SetAppend(a, [appends[a] EXCEPT !.pc = "done", !.result = "err",
                                       !.at = appends[a].pc])
    /\ UNCHANGED <<eresp, returned, lockVars, sagaVars, cacheVars, authVars>>

\* append_event: begin, the version read, the INSERT or the commit fails with
\* StorageError before the store has done it; the transaction rolls back
append_event_fails(a) ==
    /\ a \in DOMAIN appends
    /\ appends[a].pc \in {"begin", "select", "insert", "commit"}
    /\ SetAppend(a, [appends[a] EXCEPT !.pc = "done", !.result = "err",
                                       !.at = appends[a].pc])
    /\ UNCHANGED <<events, eresp, returned, lockVars, sagaVars, cacheVars, authVars>>

\* the rows of a set of row numbers ORDER BY version ASC
RECURSIVE Ascending(_)
Ascending(R) ==
    IF R = {} THEN <<>>
    ELSE LET m == CHOOSE i \in R : \A j \in R :
                      \/ events[i].version < events[j].version
                      \/ (events[i].version = events[j].version /\ i <= j)
         IN <<events[m]>> \o Ascending(R \ {m})

\* the rows the query of get_events selects
Selected(st, from, limit) ==
    LET R == {i \in RowsOf(st) : from = NoneArg \/ events[i].version >= from}
        all == Ascending(R)
    IN IF limit = NoneArg \/ limit >= Len(all) THEN all
       ELSE SubSeq(all, 1, limit)

\* FromRow of a selected row: the metadata column is decoded as a map, which
\* the JSON value null is not
Decodes(rows) == \A i \in 1..Len(rows) : rows[i].metadata # "null"

\* get_events: one SELECT, fetch_all, then the response
get_events(st, from, limit) ==
    /\ LET rows == Selected(st, from, limit)
       IN IF Decodes(rows)
          THEN /\ eresp' = [NoEventResp EXCEPT !.op = "get_events", !.stream_id = st,
                                               !.from = from, !.limit = limit,
                                               !.result = "ok", !.events = rows]
               /\ returned' = returned \cup {rows[i] : i \in 1..Len(rows)}
          ELSE /\ eresp' = [NoEventResp EXCEPT !.op = "get_events", !.stream_id = st,
                                               !.from = from, !.limit = limit,
                                               !.result = "err_decode"]
               /\ returned' = returned
    /\ UNCHANGED <<events, appends, lockVars, sagaVars, cacheVars, authVars>>

\* get_events: the store does not answer the SELECT
get_events_fails(st) ==
    /\ eresp' = [NoEventResp EXCEPT !.op = "get_events", !.stream_id = st,
                                    !.result = "err_store"]
    /\ UNCHANGED <<events, appends, returned, lockVars, sagaVars, cacheVars, authVars>>

\* get_stream_version: SELECT COALESCE(MAX(version), 0)
get_stream_version(st) ==
    /\ eresp' = [NoEventResp EXCEPT !.op = "get_stream_version", !.stream_id = st,
                                    !.result = "ok", !.version = MaxVersion(st)]
    /\ UNCHANGED <<events, appends, returned, lockVars, sagaVars, cacheVars, authVars>>

\* cleanup_old_events: Ok(0), nothing is deleted
cleanup_old_events(st) ==
    /\ eresp' = [NoEventResp EXCEPT !.op = "cleanup_old_events", !.stream_id = st,
                                    !.result = "ok"]
    /\ UNCHANGED <<events, appends, returned, lockVars, sagaVars, cacheVars, authVars>>

EventNext ==
    \/ call_append_event
    \/ \E a \in 1..MaxAppends :
         \/ append_event_begin(a)
         \/ append_event_select(a)
         \/ append_event_insert(a)
         \/ append_event_commit(a)
         \/ append_event_commit_lost(a)
         \/ append_event_fails(a)
    \/ \E st \in Streams :
         \/ \E from \in FromVersions, limit \in Limits : get_events(st, from, limit)
         \/ get_events_fails(st)
         \/ get_stream_version(st)
         \/ cleanup_old_events(st)

EventSpec == Init /\ [][EventNext]_vars

\* ---------------------------------------------------------- CacheManager
\* CacheRequest.key, value, ttl in milliseconds, tags
CacheKeys == {"a", "b"}
CacheValues == {1, 2}
CacheTtls == {NoTtl, 250}
TagSets == {{}, {"t"}, {"t", "u"}}
Tags == {"t", "u"}

\* expires_at < now: an entry is still served at the instant it expires
ExpiredStrictly(e) == e.expires_at # NoExpiry /\ e.expires_at < ctime

\* CacheEntry.expires_at <= now
Expired(e) == e.expires_at # NoExpiry /\ e.expires_at <= ctime

\* or_insert in place of insert: an existing entry is kept
MapInsertIfAbsent(m, k, e) ==
    [x \in DOMAIN m \cup {k} |-> IF x \in DOMAIN m THEN m[x] ELSE e]

\* an insert that merges the new tags into the tags of the entry it replaces
MapInsertMergeTags(m, k, e) ==
    [x \in DOMAIN m \cup {k} |->
       IF x = k
       THEN IF k \in DOMAIN m THEN [e EXCEPT !.tags = e.tags \cup m[k].tags] ELSE e
       ELSE m[x]]

\* HashMap::insert
MapInsert(m, k, e) == [x \in DOMAIN m \cup {k} |-> IF x = k THEN e ELSE m[x]]

\* HashMap::remove and HashMap::retain
MapRetain(m, K) == [x \in K |-> m[x]]

\* a caller calls set(request): now and the entry are computed before the
\* write lock is taken
call_set ==
    /\ nsets < MaxSets
    /\ nsets' = nsets + 1
    /\ \E k \in CacheKeys, v \in CacheValues, ttl \in CacheTtls, tg \in TagSets :
         csets' = csets \cup
                    {[id |-> nsets + 1, key |-> k,
                      entry |-> [value |-> v,
                                 expires_at |-> IF ttl = NoTtl THEN NoExpiry
                                                ELSE ctime + ttl,
                                 tags |-> tg, created_at |-> ctime]]}
    /\ UNCHANGED <<cache, ctime, cresp, latest, lockVars, sagaVars, eventVars, authVars>>

\* a set that inserts into a map of its own instead of the shared one under the
\* lock: the entries the others stored are lost
set_insert_unshared(c) ==
    /\ c \in csets
    /\ csets' = csets \ {c}
    /\ cache' = MapInsert(<<>>, c.key, c.entry)
    /\ latest' = [k \in DOMAIN latest \cup {c.key} |->
                    IF k = c.key
                    THEN [value |-> c.entry.value, expires_at |-> c.entry.expires_at,
                          tags |-> c.entry.tags, gone |-> FALSE,
                          over |-> IF k \in DOMAIN cache
                                   THEN [value |-> cache[k].value,
                                         expires_at |-> cache[k].expires_at,
                                         tags |-> cache[k].tags]
                                   ELSE NoOver]
                    ELSE latest[k]]
    /\ cresp' = [NoCacheResp EXCEPT !.op = "set", !.key = c.key, !.found = TRUE,
                                    !.value = c.entry.value]
    /\ UNCHANGED <<ctime, nsets, lockVars, sagaVars, eventVars, authVars>>

\* set under the write lock: cache.insert(key, entry), then the response
set_insert(c) ==
    /\ c \in csets
    /\ csets' = csets \ {c}
    /\ cache' = MapInsert(cache, c.key, c.entry)
    /\ latest' = [k \in DOMAIN latest \cup {c.key} |->
                    IF k = c.key
                    THEN [value |-> c.entry.value, expires_at |-> c.entry.expires_at,
                          tags |-> c.entry.tags, gone |-> FALSE,
                          over |-> IF k \in DOMAIN cache
                                   THEN [value |-> cache[k].value,
                                         expires_at |-> cache[k].expires_at,
                                         tags |-> cache[k].tags]
                                   ELSE NoOver]
                    ELSE latest[k]]
    /\ cresp' = [NoCacheResp EXCEPT !.op = "set", !.key = c.key, !.found = TRUE,
                                    !.value = c.entry.value]
    /\ UNCHANGED <<ctime, nsets, lockVars, sagaVars, eventVars, authVars>>

\* get under the write lock: an expired entry is removed and not found
get(k) ==
    /\ IF k \in DOMAIN cache
       THEN IF Expired(cache[k])
            THEN /\ cache' = MapRetain(cache, DOMAIN cache \ {k})
                 /\ cresp' = [NoCacheResp EXCEPT !.op = "get", !.key = k]
            ELSE /\ cache' = cache
                 /\ cresp' = [NoCacheResp EXCEPT !.op = "get", !.key = k, !.found = TRUE,
                                                 !.value = cache[k].value]
       ELSE /\ cache' = cache
            /\ cresp' = [NoCacheResp EXCEPT !.op = "get", !.key = k]
    /\ UNCHANGED <<ctime, csets, nsets, latest, lockVars, sagaVars, eventVars, authVars>>

\* a delete that answers success whether or not an entry was stored
delete_always_success(k) ==
    /\ cache' = MapRetain(cache, DOMAIN cache \ {k})
    /\ cresp' = [NoCacheResp EXCEPT !.op = "delete", !.key = k, !.success = TRUE]
    /\ latest' = IF k \in DOMAIN latest THEN [latest EXCEPT ![k].gone = TRUE] ELSE latest
    /\ UNCHANGED <<ctime, csets, nsets, lockVars, sagaVars, eventVars, authVars>>

\* delete under the write lock: cache.remove(key).is_some()
delete(k) ==
    /\ cache' = MapRetain(cache, DOMAIN cache \ {k})
    /\ cresp' = [NoCacheResp EXCEPT !.op = "delete", !.key = k,
                                    !.success = (k \in DOMAIN cache)]
    /\ latest' = IF k \in DOMAIN latest THEN [latest EXCEPT ![k].gone = TRUE] ELSE latest
    /\ UNCHANGED <<ctime, csets, nsets, lockVars, sagaVars, eventVars, authVars>>

\* an invalidation that matches the tag list as a whole instead of its members
invalidate_by_tag_whole(tag) ==
    /\ LET keep == {k \in DOMAIN cache : cache[k].tags # {tag}}
       IN /\ cache' = MapRetain(cache, keep)
          /\ cresp' = [NoCacheResp EXCEPT !.op = "invalidate_by_tag", !.tag = tag,
                                          !.success = TRUE,
                                          !.count = Cardinality(DOMAIN cache)
                                                      - Cardinality(keep)]
    /\ latest' = [k \in DOMAIN latest |->
                    IF tag \in latest[k].tags THEN [latest[k] EXCEPT !.gone = TRUE]
                    ELSE latest[k]]
    /\ UNCHANGED <<ctime, csets, nsets, lockVars, sagaVars, eventVars, authVars>>

\* invalidate_by_tag under the write lock: retain the entries without the tag
invalidate_by_tag(tag) ==
    /\ LET keep == {k \in DOMAIN cache : tag \notin cache[k].tags}
       IN /\ cache' = MapRetain(cache, keep)
          /\ cresp' = [NoCacheResp EXCEPT !.op = "invalidate_by_tag", !.tag = tag,
                                          !.success = TRUE,
                                          !.count = Cardinality(DOMAIN cache)
                                                      - Cardinality(keep)]
    /\ latest' = [k \in DOMAIN latest |->
                    IF tag \in latest[k].tags THEN [latest[k] EXCEPT !.gone = TRUE]
                    ELSE latest[k]]
    /\ UNCHANGED <<ctime, csets, nsets, lockVars, sagaVars, eventVars, authVars>>

\* cleanup_expired under the write lock: retain the entries with expires_at > now
\* or without expiry
cleanup_expired ==
    /\ LET keep == {k \in DOMAIN cache : ~Expired(cache[k])}
       IN /\ cache' = MapRetain(cache, keep)
          /\ cresp' = [NoCacheResp EXCEPT !.op = "cleanup_expired",
                                          !.count = Cardinality(DOMAIN cache)
                                                      - Cardinality(keep)]
    /\ UNCHANGED <<ctime, csets, nsets, latest, lockVars, sagaVars, eventVars, authVars>>

\* statistics that count an entry without expiry as expired
get_stats_no_expiry_expired ==
    /\ LET total == Cardinality(DOMAIN cache)
           expired == Cardinality({k \in DOMAIN cache :
                                     cache[k].expires_at = NoExpiry \/ Expired(cache[k])})
       IN cresp' = [NoCacheResp EXCEPT !.op = "get_stats", !.total = total,
                                       !.expired = expired,
                                       !.active = total - expired]
    /\ UNCHANGED <<cache, ctime, csets, nsets, latest, lockVars, sagaVars, eventVars, authVars>>

\* get_stats under the read lock
get_stats ==
    /\ LET total == Cardinality(DOMAIN cache)
           expired == Cardinality({k \in DOMAIN cache : Expired(cache[k])})
       IN cresp' = [NoCacheResp EXCEPT !.op = "get_stats", !.total = total,
                                       !.expired = expired,
                                       !.active = total - expired]
    /\ UNCHANGED <<cache, ctime, csets, nsets, latest, lockVars, sagaVars, eventVars, authVars>>

\* Utc::now() advances
CacheTick ==
    /\ ctime < MaxCacheTicks * 250
    /\ ctime' = ctime + 250
    /\ UNCHANGED <<cache, csets, nsets, cresp, latest, lockVars, sagaVars, eventVars, authVars>>

CacheNext ==
    \/ call_set
    \/ \E c \in csets : set_insert(c)
    \/ \E k \in CacheKeys :
         \/ get(k)
         \/ delete(k)
    \/ \E tag \in Tags : invalidate_by_tag(tag)
    \/ cleanup_expired
    \/ get_stats
    \/ CacheTick

CacheSpec == Init /\ [][CacheNext]_vars

\* ---------------------------------------------------------- ApiKeyManager
\* CreateApiKeyRequest.expires_in_days; NoExpiry stands for None
ExpiresInDays == {NoExpiry, 0}

\* the key string "sk_..." made for the key record with this id
KeyOf(id) == 100 + id
\* a key string no record was made for
UnknownKey == 100
\* an id no record has
UnknownId == 0

\* tokio::sync::RwLock: the waiters are served in the order they came; a reader
\* is let in while no writer holds the lock, a writer when nobody holds it
Enqueue(l, c) == [l EXCEPT !.queue = Append(@, c)]
CanRead(l, c) == l.queue # <<>> /\ Head(l.queue) = c /\ l.writer = 0
CanWrite(l, c) ==
    l.queue # <<>> /\ Head(l.queue) = c /\ l.writer = 0 /\ l.readers = {}
TakeRead(l, c) == [l EXCEPT !.queue = Tail(@), !.readers = @ \cup {c}]
TakeWrite(l, c) == [l EXCEPT !.queue = Tail(@), !.writer = c]
\* the guards of call c are dropped
Release(l, c) ==
    [l EXCEPT !.readers = @ \ {c}, !.writer = IF @ = c THEN 0 ELSE @]

SetCall(c, r) == api_calls' = [api_calls EXCEPT ![c] = r]
Done(c, result) == SetCall(c, [api_calls[c] EXCEPT !.pc = "done", !.result = result])

\* a caller calls create_api_key: id, key, now and expires_at are made, then
\* keys.write() is awaited
call_create_api_key ==
    /\ Len(api_calls) < MaxApiCalls
    /\ \E d \in ExpiresInDays :
         api_calls' = Append(api_calls,
                             [op |-> "create", arg |-> 0, pc |-> "keys_write",
                              result |-> "none",
                              expires_at |-> IF d = NoExpiry THEN NoExpiry
                                             ELSE api_time + d])
    /\ keys_lock' = Enqueue(keys_lock, Len(api_calls) + 1)
    /\ UNCHANGED <<api_keys, key_to_id, ids_lock, api_time, rbacVars, lockVars,
                   sagaVars, eventVars, cacheVars>>

\* a caller calls validate_api_key(key): key_to_id.read() is awaited
call_validate_api_key ==
    /\ Len(api_calls) < MaxApiCalls
    /\ \E k \in {UnknownKey} \cup {KeyOf(id) : id \in DOMAIN api_keys} :
         api_calls' = Append(api_calls,
                             [op |-> "validate", arg |-> k, pc |-> "ids_read",
                              result |-> "none", expires_at |-> NoExpiry])
    /\ ids_lock' = Enqueue(ids_lock, Len(api_calls) + 1)
    /\ UNCHANGED <<api_keys, key_to_id, keys_lock, api_time, rbacVars, lockVars,
                   sagaVars, eventVars, cacheVars>>

\* a caller calls revoke_api_key(id): keys.write() is awaited
call_revoke_api_key ==
    /\ Len(api_calls) < MaxApiCalls
    /\ \E id \in {UnknownId} \cup DOMAIN api_keys :
         api_calls' = Append(api_calls,
                             [op |-> "revoke", arg |-> id, pc |-> "keys_write",
                              result |-> "none", expires_at |-> NoExpiry])
    /\ keys_lock' = Enqueue(keys_lock, Len(api_calls) + 1)
    /\ UNCHANGED <<api_keys, key_to_id, ids_lock, api_time, rbacVars, lockVars,
                   sagaVars, eventVars, cacheVars>>

\* validate_api_key: key_to_id.read() resolves, keys.read() is awaited
ids_read(c) ==
    /\ c \in DOMAIN api_calls
    /\ api_calls[c].pc = "ids_read"
    /\ CanRead(ids_lock, c)
    /\ ids_lock' = TakeRead(ids_lock, c)
    /\ keys_lock' = Enqueue(keys_lock, c)
    /\ SetCall(c, [api_calls[c] EXCEPT !.pc = "keys_read"])
    /\ UNCHANGED <<api_keys, key_to_id, api_time, rbacVars, lockVars, sagaVars,
                   eventVars, cacheVars>>

\* validate_api_key: keys.read() resolves; unknown, inactive or expired -> Ok(None)
\* and the guards are dropped; else keys.write() is awaited with both read
\* guards still held
keys_read(c) ==
    /\ c \in DOMAIN api_calls
    /\ api_calls[c].pc = "keys_read"
    /\ CanRead(keys_lock, c)
    /\ LET k == api_calls[c].arg
           known == k \in DOMAIN key_to_id /\ key_to_id[k] \in DOMAIN api_keys
           valid == /\ known
                    /\ api_keys[key_to_id[k]].is_active
                    /\ ~ ( /\ api_keys[key_to_id[k]].expires_at # NoExpiry
                           /\ api_time > api_keys[key_to_id[k]].expires_at )
       IN IF valid
          THEN /\ keys_lock' = Enqueue(TakeRead(keys_lock, c), c)
               /\ ids_lock' = ids_lock
               /\ SetCall(c, [api_calls[c] EXCEPT !.pc = "keys_write"])
          ELSE /\ keys_lock' = Release(TakeRead(keys_lock, c), c)
               /\ ids_lock' = Release(ids_lock, c)
               /\ Done(c, "None")
    /\ UNCHANGED <<api_keys, key_to_id, api_time, rbacVars, lockVars, sagaVars,
                   eventVars, cacheVars>>

\* keys.write() resolves. create_api_key then awaits key_to_id.write();
\* revoke_api_key sets is_active = false and returns; validate_api_key updates
\* last_used_at and usage_count and returns Some(api_key)
keys_write(c) ==
    /\ c \in DOMAIN api_calls
    /\ api_calls[c].pc = "keys_write"
    /\ CanWrite(keys_lock, c)
    /\ CASE api_calls[c].op = "create" ->
              /\ keys_lock' = TakeWrite(keys_lock, c)
              /\ ids_lock' = Enqueue(ids_lock, c)
              /\ SetCall(c, [api_calls[c] EXCEPT !.pc = "ids_write"])
              /\ UNCHANGED api_keys
         [] api_calls[c].op = "revoke" ->
              /\ keys_lock' = Release(TakeWrite(keys_lock, c), c)
              /\ ids_lock' = ids_lock
              /\ IF api_calls[c].arg \in DOMAIN api_keys
                 THEN /\ api_keys' = [api_keys EXCEPT
                                        ![api_calls[c].arg].is_active = FALSE]
                      /\ Done(c, "true")
                 ELSE /\ api_keys' = api_keys
                      /\ Done(c, "false")
         [] api_calls[c].op = "validate" ->
              /\ keys_lock' = Release(TakeWrite(keys_lock, c), c)
              /\ ids_lock' = Release(ids_lock, c)
              /\ api_keys' = [api_keys EXCEPT
                                ![key_to_id[api_calls[c].arg]].usage_count = @ + 1,
                                ![key_to_id[api_calls[c].arg]].last_used_at = api_time]
              /\ Done(c, "Some")
    /\ UNCHANGED <<key_to_id, api_time, rbacVars, lockVars, sagaVars, eventVars,
                   cacheVars>>

\* create_api_key: key_to_id.write() resolves, both maps are written, the guards
\* are dropped
ids_write(c) ==
    /\ c \in DOMAIN api_calls
    /\ api_calls[c].pc = "ids_write"
    /\ CanWrite(ids_lock, c)
    /\ LET id == Cardinality(DOMAIN api_keys) + 1
       IN /\ api_keys' = [i \in DOMAIN api_keys \cup {id} |->
                             IF i = id
                             THEN [key |-> KeyOf(id), is_active |-> TRUE,
                                   expires_at |-> api_calls[c].expires_at,
                                   usage_count |-> 0, last_used_at |-> NoExpiry]
                             ELSE api_keys[i]]
          /\ key_to_id' = [k \in DOMAIN key_to_id \cup {KeyOf(id)} |->
                              IF k = KeyOf(id) THEN id ELSE key_to_id[k]]
    /\ keys_lock' = Release(keys_lock, c)
    /\ ids_lock' = Release(TakeWrite(ids_lock, c), c)
    /\ Done(c, "ok")
    /\ UNCHANGED <<api_time, rbacVars, lockVars, sagaVars, eventVars, cacheVars>>

\* Utc::now() advances by a day
ApiTick ==
    /\ api_time < MaxApiTicks
    /\ api_time' = api_time + 1
    /\ UNCHANGED <<api_keys, key_to_id, keys_lock, ids_lock, api_calls, rbacVars,
                   lockVars, sagaVars, eventVars, cacheVars>>

ApiKeyNext ==
    \/ call_create_api_key
    \/ call_validate_api_key
    \/ call_revoke_api_key
    \/ \E c \in 1..MaxApiCalls :
         \/ ids_read(c)
         \/ keys_read(c)
         \/ keys_write(c)
         \/ ids_write(c)
    \/ ApiTick

ApiKeySpec == Init /\ [][ApiKeyNext]_vars

\* every lock future that can resolve is polled: a call that can take its next
\* step takes it
ApiKeyFairSpec ==
    /\ ApiKeySpec
    /\ \A c \in 1..MaxApiCalls :
         /\ WF_vars(ids_read(c))
         /\ WF_vars(keys_read(c))
         /\ WF_vars(keys_write(c))
         /\ WF_vars(ids_write(c))

\* ------------------------------------------------------------ RBACManager
\* the role lists given to create_user and update_user_roles
RoleLists == {{}, {"Viewer"}, {"Developer"}, {"Custom"}, {"Viewer", "Custom"}}
\* the permission lists given to create_custom_role
PermissionLists == {{}, {"AdminUsers"}}
\* the user ids callers pass: those of the users made and one nobody has
UserIds == 1..(MaxUsers + 1)

\* permissions.extend(role.get_permissions()) for each role
RoleDefaults(rs) == UNION {get_permissions(r) : r \in rs}

RbacResp(op, u, p, result) ==
    rbac_resp' = [op |-> op, user_id |-> u, permission |-> p, result |-> result]

\* create_user: a fresh id, the permissions of the roles, is_active = true
create_user ==
    /\ Cardinality(DOMAIN users) < MaxUsers
    /\ \E rs \in RoleLists :
         LET id == Cardinality(DOMAIN users) + 1
         IN /\ users' = [u \in DOMAIN users \cup {id} |->
                           IF u = id
                           THEN [roles |-> rs, permissions |-> RoleDefaults(rs),
                                 is_active |-> TRUE]
                           ELSE users[u]]
            /\ granted' = [u \in DOMAIN granted \cup {id} |->
                             IF u = id THEN {} ELSE granted[u]]
            /\ RbacResp("create_user", id, "", "ok")
    /\ UNCHANGED <<roles, apiVars, lockVars, sagaVars, eventVars, cacheVars>>

\* update_user_roles: the roles and the permissions are replaced
update_user_roles(u, rs) ==
    /\ IF u \in DOMAIN users
       THEN /\ users' = [users EXCEPT ![u].roles = rs,
                                      ![u].permissions = RoleDefaults(rs)]
            /\ RbacResp("update_user_roles", u, "", "ok")
       ELSE /\ users' = users
            /\ RbacResp("update_user_roles", u, "", "err")
    /\ UNCHANGED <<roles, granted, apiVars, lockVars, sagaVars, eventVars, cacheVars>>

\* add_user_permission: push unless contained
add_user_permission(u, p) ==
    /\ IF u \in DOMAIN users
       THEN /\ users' = [users EXCEPT ![u].permissions = @ \cup {p}]
            /\ granted' = [granted EXCEPT ![u] = @ \cup {p}]
            /\ RbacResp("add_user_permission", u, p, "ok")
       ELSE /\ UNCHANGED <<users, granted>>
            /\ RbacResp("add_user_permission", u, p, "err")
    /\ UNCHANGED <<roles, apiVars, lockVars, sagaVars, eventVars, cacheVars>>

\* remove_user_permission: retain the others
remove_user_permission(u, p) ==
    /\ IF u \in DOMAIN users
       THEN /\ users' = [users EXCEPT ![u].permissions = @ \ {p}]
            /\ granted' = [granted EXCEPT ![u] = @ \ {p}]
            /\ RbacResp("remove_user_permission", u, p, "ok")
       ELSE /\ UNCHANGED <<users, granted>>
            /\ RbacResp("remove_user_permission", u, p, "err")
    /\ UNCHANGED <<roles, apiVars, lockVars, sagaVars, eventVars, cacheVars>>

\* check_permission: inactive -> false; a direct permission -> true; a role whose
\* get_permissions contains it -> true; else false
check_permission(u, p) ==
    /\ RbacResp("check_permission", u, p,
                IF u \in DOMAIN users
                THEN IF ~users[u].is_active THEN FALSE
                     ELSE IF p \in users[u].permissions THEN TRUE
                     ELSE \E r \in users[u].roles : p \in get_permissions(r)
                ELSE FALSE)
    /\ UNCHANGED <<users, roles, granted, apiVars, lockVars, sagaVars, eventVars,
                   cacheVars>>

\* create_custom_role: roles.insert(Role::Custom(name), definition)
create_custom_role(ps) ==
    /\ roles' = [r \in DOMAIN roles \cup {"Custom"} |->
                   IF r = "Custom" THEN ps ELSE roles[r]]
    /\ RbacResp("create_custom_role", 0, "", "ok")
    /\ UNCHANGED <<users, granted, apiVars, lockVars, sagaVars, eventVars, cacheVars>>

\* deactivate_user
deactivate_user(u) ==
    /\ IF u \in DOMAIN users
       THEN /\ users' = [users EXCEPT ![u].is_active = FALSE]
            /\ RbacResp("deactivate_user", u, "", "ok")
       ELSE /\ users' = users
            /\ RbacResp("deactivate_user", u, "", "err")
    /\ UNCHANGED <<roles, granted, apiVars, lockVars, sagaVars, eventVars, cacheVars>>

\* activate_user
activate_user(u) ==
    /\ IF u \in DOMAIN users
       THEN /\ users' = [users EXCEPT ![u].is_active = TRUE]
            /\ RbacResp("activate_user", u, "", "ok")
       ELSE /\ users' = users
            /\ RbacResp("activate_user", u, "", "err")
    /\ UNCHANGED <<roles, granted, apiVars, lockVars, sagaVars, eventVars, cacheVars>>

RbacNext ==
    \/ create_user
    \/ \E u \in UserIds :
         \/ \E rs \in RoleLists : update_user_roles(u, rs)
         \/ \E p \in Permissions :
              \/ add_user_permission(u, p)
              \/ remove_user_permission(u, p)
              \/ check_permission(u, p)
         \/ deactivate_user(u)
         \/ activate_user(u)
    \/ \E ps \in PermissionLists : create_custom_role(ps)

RbacSpec == Init /\ [][RbacNext]_vars

\* ================================================================ LockManager
\* a call of client c that has returned a response (not an error)
Returned(c, op) == pc[c] = "idle" /\ req[c].op = op /\ resp[c].kind = "ok"

\* the step in which client c's call returns a response
Returns(c, op) ==
    /\ req[c].op = op
    /\ pc[c] # "idle"
    /\ pc'[c] = "idle"
    /\ resp'[c].kind = "ok"

\* C1: lock mutual exclusion: for every key at most one lease is held (handed
\* out, not released, not expired) at a time, and the held lease is the one the
\* store keeps under the key
LockMutualExclusion ==
    \A k \in Keys :
        /\ Cardinality(ActiveOn(k)) <= 1
        /\ \A i \in ActiveOn(k) : Get(k) = i

\* a second client was refused while the first one's lease is held
LockMutualExclusionWitness ==
    \E c \in Clients :
        /\ Returned(c, "acquire")
        /\ ~resp[c].success
        /\ \E i \in ActiveOn(req[c].key) : issued[i].owner # c

\* C2: lock ownership: a release whose lock_id is not the one stored for the key
\* (a stale id, or any id when nothing is stored) returns success = false and
\* leaves the store as it was
LockOwnership ==
    [][\A c \in Clients :
          (Returns(c, "release") /\ req[c].lock_id # Get(req[c].key))
              => (~resp'[c].success /\ locks' = locks)]_vars

\* a release with the id of an expired lease was refused after another client
\* re-acquired the key
LockOwnershipWitness ==
    \E c \in Clients :
        /\ Returned(c, "release")
        /\ ~resp[c].success
        /\ req[c].lock_id \in DOMAIN issued
        /\ issued[req[c].lock_id].key = req[c].key
        /\ issued[req[c].lock_id].expires_at <= now
        /\ \E j \in ActiveOn(req[c].key) : j # req[c].lock_id /\ Get(req[c].key) = j

\* C3: lock expiry: once the TTL of an unreleased lease has elapsed and nobody
\* else holds the key, an acquire for the key that returns a response returns
\* success, and its lock_id is then stored
LockExpiry ==
    [][\A c \in Clients :
          ( /\ Returns(c, "acquire")
            /\ ActiveOn(req[c].key) = {}
            /\ \E i \in DOMAIN issued :
                 /\ issued[i].key = req[c].key
                 /\ ~issued[i].released
                 /\ issued[i].expires_at <= now )
              => ( /\ resp'[c].success
                   /\ resp'[c].lock_id # EmptyId
                   /\ locks'[req[c].key].id = resp'[c].lock_id )]_vars

\* an acquire succeeded over a lease that expired without being released
LockExpiryWitness ==
    \E c \in Clients :
        /\ Returned(c, "acquire")
        /\ resp[c].success
        /\ \E i \in DOMAIN issued :
             /\ i # resp[c].lock_id
             /\ issued[i].key = req[c].key
             /\ ~issued[i].released
             /\ issued[i].expires_at <= issued[resp[c].lock_id].acquired_at

\* the clients whose acquire for key k was made while k was free and has
\* returned a response, no time having passed since
Racers(k) ==
    {c \in Clients : Returned(c, "acquire") /\ req[c].key = k /\ req[c].free
                     /\ req[c].elapsed = 0}

\* every lease handed out for k in this instant went to a racer and is still held
QuietRound(k) ==
    \A i \in DOMAIN issued :
        (issued[i].key = k /\ issued[i].acquired_at = now)
            => (Active(i) /\ \E c \in Racers(k) : resp[c].lock_id = i)

ReleaseFrees ==
    [][\A c \in Clients :
          /\ (Returns(c, "release") /\ req[c].lock_id = Get(req[c].key)
                                    /\ Get(req[c].key) # EmptyId)
                => (resp'[c].success /\ locks'[req[c].key] = NoLock)
          /\ (Returns(c, "status") /\ pc[c] = "status_get" /\ ~Exists(req[c].key))
                => ~resp'[c].success
          /\ (Returns(c, "acquire") /\ ~Exists(req[c].key))
                => (resp'[c].success /\ locks'[req[c].key].id = resp'[c].lock_id)]_vars

\* a lease was released and a later acquire for the key succeeded before the
\* released lease's TTL had elapsed
ReleaseFreesWitness ==
    \E c \in Clients :
        /\ Returned(c, "acquire")
        /\ resp[c].success
        /\ \E i \in DOMAIN issued :
             /\ issued[i].key = req[c].key
             /\ issued[i].released
             /\ issued[i].owner # c
             /\ issued[resp[c].lock_id].acquired_at < issued[i].expires_at

\* C6: while a lease is held, get_lock_status returns its key, its lock_id and
\* the owner it was handed to
StatusShowsOwner ==
    \A c \in Clients :
        (Returned(c, "status") /\ resp[c].success /\ resp[c].lock_id \in ActiveOn(req[c].key))
            => /\ resp[c].key = issued[resp[c].lock_id].key
               /\ resp[c].owner = issued[resp[c].lock_id].owner

\* C7: only the owner a lease was handed to can release it: a release by any
\* other owner is refused
ReleaseOnlyByOwner ==
    \A c \in Clients :
        (Returned(c, "release") /\ resp[c].success)
            => issued[req[c].lock_id].owner = c

\* C8: every lock state returned by get_lock_status has expires_at > acquired_at
StatusExpiresAfterAcquired ==
    \A c \in Clients :
        (Returned(c, "status") /\ resp[c].success)
            => resp[c].expires_at > resp[c].acquired_at

\* C9: an acquire with wait_timeout set does not fail at once on a held key: it
\* returns success = false only after wait_timeout has elapsed
AcquireWaits ==
    \A c \in Clients :
        (Returned(c, "acquire") /\ req[c].wait > 0 /\ ~resp[c].success)
            => req[c].elapsed >= req[c].wait

\* =========================================================== SagaOrchestrator
\* the edges of the saga state machine
Edges == {<<"Pending", "Running">>, <<"Running", "Completed">>, <<"Running", "Failed">>,
          <<"Failed", "Compensating">>, <<"Compensating", "Compensated">>}

\* C10: every change of a saga's persisted status follows one of the edges
\* Pending->Running, Running->Completed, Running->Failed, Failed->Compensating,
\* Compensating->Compensated
StatusFollowsEdges ==
    [][\A s \in DOMAIN sagas :
          sagas'[s].status # sagas[s].status
              => <<sagas[s].status, sagas'[s].status>> \in Edges]_vars

\* the statuses no transition leaves
Terminal == {"Completed", "Compensated"}

\* C11: Completed and Compensated are terminal: a saga whose persisted status is
\* Completed or Compensated keeps that status in every later step
TerminalStays ==
    [][\A s \in DOMAIN sagas :
          sagas[s].status \in Terminal => sagas'[s].status = sagas[s].status]_vars

\* C12: saga terminality: every saga start_saga has spawned the execution of
\* eventually has the persisted status Completed or Compensated
SagaTerminality ==
    \A s \in 1..MaxSagas :
        (\E t \in DOMAIN tasks : tasks[t].saga = s /\ ~tasks[t].direct)
            ~> (s \in DOMAIN sagas /\ sagas[s].status \in Terminal)

\* start_saga has returned saga id s to its caller
Started(s) == s \in DOMAIN requests /\ s \notin starting \cup cancelled

\* the runs of execute_saga for saga s
TasksOf(s) == {t \in DOMAIN tasks : tasks[t].saga = s}

StepsInOrder ==
    [][\A s \in DOMAIN sagas :
          /\ sagas'[s].current_step # sagas[s].current_step
                => sagas'[s].current_step = sagas[s].current_step + 1
          /\ (sagas'[s].status = "Completed" /\ Len(sagas'[s].steps) >= 1)
                => sagas'[s].current_step = Len(sagas'[s].steps) - 1]_vars

\* C15: a saga whose persisted status is Running or Compensating has a
\* current_step that is not NULL and lies in 0 .. number of steps - 1
RunningHasStep ==
    \A s \in DOMAIN sagas :
        sagas[s].status \in {"Running", "Compensating"}
            => /\ sagas[s].current_step # NullStep
               /\ 0 <= sagas[s].current_step
               /\ sagas[s].current_step < Len(sagas[s].steps)

\* run t left its step loop because execute_step returned an error
StepFailed(t) ==
    /\ tasks[t].invoked # <<>>
    /\ ~tasks[t].invoked[Len(tasks[t].invoked)].ok

\* the index of the step whose execute_step failed in run t
FailedStep(t) == tasks[t].invoked[Len(tasks[t].invoked)].step

\* C16: saga compensation order: after failing at step k the compensation
\* calls are k, k-1, ..., 0 in this order: what has been called so far is a
\* prefix of that list, and all of it has been called when the loop is over
CompensationOrder ==
    \A t \in DOMAIN tasks :
        StepFailed(t) =>
            LET k == FailedStep(t)
                c == tasks[t].compensated
            IN /\ Len(c) <= k + 1
               /\ \A i \in 1..Len(c) : c[i] = k + 1 - i
               /\ tasks[t].pc = "comp_update_done" => Len(c) = k + 1

\* C17: only steps whose action completed successfully are compensated: every
\* compensation call of a run is for a step whose execute_step returned Ok in
\* that run
CompensatesOnlySucceeded ==
    \A t \in DOMAIN tasks :
        \A i \in 1..Len(tasks[t].compensated) :
            \E j \in 1..Len(tasks[t].invoked) :
                /\ tasks[t].invoked[j].step = tasks[t].compensated[i]
                /\ tasks[t].invoked[j].ok

\* C18: a failing step is invoked max_retries + 1 times before the saga leaves
\* Running (once when it has no RetryPolicy): a run that has given up its step
\* loop has made that many failed attempts of the step, and a step that
\* succeeded is not invoked again
RetriesBeforeFailure ==
    \A t \in DOMAIN tasks :
        LET inv == tasks[t].invoked
        IN /\ (StepFailed(t) /\ tasks[t].pc \notin {"step_update", "step_sleep"}) =>
                Cardinality({j \in 1..Len(inv) :
                               inv[j].step = FailedStep(t) /\ ~inv[j].ok})
                    = sagas[tasks[t].saga].steps[FailedStep(t) + 1] + 1
           /\ \A i, j \in 1..Len(inv) :
                (i < j /\ inv[i].ok) => inv[j].step # inv[i].step

\* C19: once the INSERT of start_saga is committed the saga is executed, also
\* when the caller of start_saga is cancelled: every persisted saga whose
\* start_saga call is over has the run of execute_saga that start_saga spawns
PersistedIsExecuted ==
    \A s \in DOMAIN sagas :
        s \notin starting => \E t \in TasksOf(s) : ~tasks[t].direct

\* C20: a forced compensation is accepted only for a saga that is Running or
\* Failed: requested for a saga that is Pending, Completed, Compensating or
\* Compensated it is not answered with success, and the sagas table stays as
\* it was
ForcedCompensateGuard ==
    [][\A s \in DOMAIN sagas :
          ( /\ sresp' # sresp
            /\ sresp'.op = "compensate" /\ sresp'.saga_id = s
            /\ sagas[s].status \in {"Pending", "Completed", "Compensating", "Compensated"} )
              => (sresp'.result # "success" /\ sagas' = sagas)]_vars

\* C21: start_saga with an empty steps list is rejected and persists no record:
\* no row of the sagas table has an empty steps list
NoEmptySaga ==
    \A s \in DOMAIN sagas : Len(sagas[s].steps) >= 1

\* ================================================================= EventStore
\* the versions stored for a stream
VersionsOf(st) == {events[i].version : i \in RowsOf(st)}

\* append call a has returned
Appended(a, res) == appends[a].pc = "done" /\ appends[a].result = res

\* C22: event version density: for every stream the versions of the stored
\* events are exactly 1..N, N the number of its events: no holes, no duplicates
VersionDensity ==
    \A st \in Streams : VersionsOf(st) = 1..Cardinality(RowsOf(st))

\* an append was rolled back at its commit next to a stored event of the same
\* stream, and left no hole
VersionDensityWitness ==
    \E a, b \in DOMAIN appends :
        /\ Appended(a, "err") /\ appends[a].at = "commit"
        /\ \A i \in DOMAIN events : events[i].id # a
        /\ Appended(b, "ok")
        /\ appends[b].req.stream_id = appends[a].req.stream_id

\* C23: event append linearization: two append_event calls on the same stream
\* that both return success have different versions
DistinctVersions ==
    \A a, b \in DOMAIN appends :
        ( /\ a # b
          /\ Appended(a, "ok") /\ Appended(b, "ok")
          /\ appends[a].req.stream_id = appends[b].req.stream_id )
            => appends[a].version # appends[b].version

\* two appends to one stream both returned success
DistinctVersionsWitness ==
    \E a, b \in DOMAIN appends :
        /\ a # b
        /\ Appended(a, "ok") /\ Appended(b, "ok")
        /\ appends[a].req.stream_id = appends[b].req.stream_id
        /\ {appends[a].version, appends[b].version} = {1, 2}

\* C24: concurrent appends to one stream all return success when the store is
\* available: no append fails because of a version conflict
NoConflictFailure ==
    \A a \in DOMAIN appends : ~Appended(a, "conflict")

\* C25: a successful append to a stream whose highest version is N stores the
\* event with version N + 1 (1 for an empty stream) and makes N + 1 the highest
\* version; get_stream_version returns the highest version, 0 without events
AppendAssignsNext ==
    [][ /\ \A a \in DOMAIN appends :
              (appends[a].result # "ok" /\ appends'[a].result = "ok")
                  => LET st == appends[a].req.stream_id
                         n == Cardinality(RowsOf(st))
                     IN /\ \A v \in VersionsOf(st) : v <= n
                        /\ \E i \in DOMAIN events' :
                              /\ i \notin DOMAIN events
                              /\ events'[i].id = a
                              /\ events'[i].stream_id = st
                              /\ events'[i].version = n + 1
                        /\ \A i \in DOMAIN events' :
                              events'[i].stream_id = st => events'[i].version <= n + 1
        /\ (eresp' # eresp /\ eresp'.op = "get_stream_version")
              => \/ eresp'.version = 0 /\ RowsOf(eresp'.stream_id) = {}
                 \/ /\ eresp'.version \in VersionsOf(eresp'.stream_id)
                    /\ \A v \in VersionsOf(eresp'.stream_id) : v <= eresp'.version ]_vars

\* get_stream_version returned 2 after the second successful append to a stream
AppendAssignsNextWitness ==
    /\ eresp.op = "get_stream_version" /\ eresp.version = 2
    /\ \E a \in DOMAIN appends :
          /\ Appended(a, "ok") /\ appends[a].version = 2
          /\ appends[a].req.stream_id = eresp.stream_id

\* the step is a get_events call for stream st that the store has answered
Answered(st) ==
    /\ eresp' # eresp
    /\ eresp'.op = "get_events" /\ eresp'.stream_id = st
    /\ eresp'.result # "err_store"

\* the stored rows of stream st a get_events(st, from, ..) has to choose from
Matching(st, from) ==
    {events[i] : i \in {j \in RowsOf(st) : from = NoneArg \/ events[j].version >= from}}

\* C26: get_events(stream, from_version, limit) returns success with exactly the
\* stored events of the stream with version >= from_version (all when it is
\* absent), in strictly ascending version order, cut to the first `limit`
\* events when limit is given; an empty list for a stream without events
GetEventsSelects ==
    [][\A st \in Streams :
          Answered(st) =>
              LET out == eresp'.events
                  got_ == {out[i] : i \in 1..Len(out)}
                  all == Matching(st, eresp'.from)
              IN /\ eresp'.result = "ok"
                 /\ got_ \subseteq all
                 /\ \A i, j \in 1..Len(out) : i < j => out[i].version < out[j].version
                 /\ Len(out) = IF eresp'.limit = NoneArg \/ eresp'.limit >= Cardinality(all)
                               THEN Cardinality(all) ELSE eresp'.limit
                 /\ \A r \in all \ got_ : \A g \in got_ : g.version < r.version]_vars

\* C27: the event log is append-only: every event a get_events call has returned
\* is returned, with the same id, version, event_type and data, by every later
\* full read of its stream
ReturnedStays ==
    [][\A st \in Streams :
          (Answered(st) /\ eresp'.from = NoneArg /\ eresp'.limit = NoneArg)
              => \A r \in returned :
                    r.stream_id = st
                        => \E i \in 1..Len(eresp'.events) :
                              /\ eresp'.events[i].id = r.id
                              /\ eresp'.events[i].version = r.version
                              /\ eresp'.events[i].event_type = r.event_type
                              /\ eresp'.events[i].data = r.data]_vars

\* C28: append/read round trip: after append_event returned success with event
\* id E, a full get_events of the stream contains exactly one event with id E,
\* and its stream_id, event_type and data are those of the request
AppendReadRoundTrip ==
    [][\A st \in Streams :
          (Answered(st) /\ eresp'.from = NoneArg /\ eresp'.limit = NoneArg)
              => \A a \in DOMAIN appends :
                    (Appended(a, "ok") /\ appends[a].req.stream_id = st)
                        => /\ Cardinality({i \in 1..Len(eresp'.events) :
                                              eresp'.events[i].id = a}) = 1
                           /\ \A i \in 1..Len(eresp'.events) :
                                 eresp'.events[i].id = a
                                     => /\ eresp'.events[i].stream_id = st
                                        /\ eresp'.events[i].event_type
                                               = appends[a].req.event_type
                                        /\ eresp'.events[i].data = appends[a].req.data]_vars

\* C29: an append_event that returns an error leaves the stream unchanged: no
\* event of that call is stored
FailedAppendStoresNothing ==
    \A a \in DOMAIN appends :
        (Appended(a, "err") \/ Appended(a, "conflict"))
            => \A i \in DOMAIN events : events[i].id # a

\* C29 as amended: an append_event whose error comes from begin, the version
\* read or the INSERT (a version conflict included) stores no event
FailedBeforeCommitStoresNothing ==
    \A a \in DOMAIN appends :
        ( /\ Appended(a, "err") \/ Appended(a, "conflict")
          /\ appends[a].at # "commit" )
            => \A i \in DOMAIN events : events[i].id # a

\* an append lost the version conflict at its INSERT and the stream holds only
\* the other call's event
FailedBeforeCommitWitness ==
    \E a, b \in DOMAIN appends :
        /\ Appended(a, "conflict")
        /\ Appended(b, "ok")
        /\ appends[a].req.stream_id = appends[b].req.stream_id
        /\ appends[a].version = appends[b].version
        /\ {events[i].id : i \in RowsOf(appends[a].req.stream_id)} = {b}

\* a step in which get(k) answers: the response is a get's for k, and the step is
\* none of the steps that keep an earlier response
GetAnswers(k) ==
    /\ cresp'.op = "get"
    /\ cresp'.key = k
    /\ UNCHANGED <<ctime, nsets>>

\* the most recent set for k is still in force: not deleted, not invalidated by
\* tag, not expired
InForce(k) ==
    /\ k \in DOMAIN latest
    /\ ~latest[k].gone
    /\ ~Expired(latest[k])

\* C30: get(k) returns found = true with the value of the most recent successful
\* set for k, provided that entry has not since been deleted, invalidated by tag
\* or expired; after set(k, v1) and set(k, v2), get(k) returns v2.
LastWriterWins ==
    [][\A k \in CacheKeys :
         GetAnswers(k) /\ InForce(k)
           => cresp'.found /\ cresp'.value = latest[k].value]_vars

\* set(k, 1), then set(k, 2), then get(k) has returned 2
LastWriterWinsWitness ==
    /\ cresp.op = "get"
    /\ cresp.found
    /\ cresp.value = 2
    /\ cresp.key \in DOMAIN latest
    /\ latest[cresp.key].value = 2
    /\ latest[cresp.key].over.value = 1
    /\ ~latest[cresp.key].gone

\* a step in which invalidate_by_tag(tag) answers
InvalidateAnswers(tag) ==
    /\ cresp'.op = "invalidate_by_tag"
    /\ cresp'.tag = tag
    /\ UNCHANGED <<ctime, nsets>>

\* C31: a set for an existing key replaces the whole entry: only the tags and the
\* expiry of the most recent set apply. invalidate_by_tag(t) keeps a stored key
\* whose last set did not carry t, whatever the earlier sets carried, and a stored
\* key whose last set had no TTL is found by get at any time.
SetReplacesEntry ==
    [][\A k \in CacheKeys :
         k \in DOMAIN cache /\ k \in DOMAIN latest =>
           /\ \A tag \in Tags :
                InvalidateAnswers(tag) /\ tag \notin latest[k].tags
                  => k \in DOMAIN cache' /\ cache'[k] = cache[k]
           /\ GetAnswers(k) /\ latest[k].expires_at = NoExpiry
                => cresp'.found /\ cresp'.value = latest[k].value]_vars

\* set(k, v1, ttl, [t]) was replaced by set(k, v2, no ttl, []); the first TTL has
\* passed and invalidate_by_tag(t) has run: k is still stored
SetReplacesEntryWitness ==
    /\ cresp.op = "invalidate_by_tag"
    /\ cresp.tag = "t"
    /\ \E k \in DOMAIN cache :
         /\ k \in DOMAIN latest
         /\ "t" \in latest[k].over.tags
         /\ latest[k].over.expires_at # NoExpiry
         /\ latest[k].over.expires_at <= ctime
         /\ latest[k].tags = {}
         /\ latest[k].expires_at = NoExpiry
         /\ cache[k].value = latest[k].value

\* a step in which cleanup_expired answers
CleanupAnswers ==
    /\ cresp'.op = "cleanup_expired"
    /\ UNCHANGED <<ctime, nsets>>

\* C32: once the TTL of the stored entry of k has passed (expires_at <= now),
\* get(k) returns found = false and removes that entry and no other, so the
\* number of stored entries drops by one; an entry set without TTL is never
\* treated as expired, neither by get nor by cleanup_expired.
ExpiryHidesValues ==
    [][\A k \in CacheKeys :
         k \in DOMAIN cache /\ k \in DOMAIN latest =>
           /\ GetAnswers(k) /\ latest[k].expires_at # NoExpiry
                             /\ latest[k].expires_at <= ctime
                => /\ ~cresp'.found
                   /\ DOMAIN cache' = DOMAIN cache \ {k}
                   /\ Cardinality(DOMAIN cache') = Cardinality(DOMAIN cache) - 1
                   /\ \A x \in DOMAIN cache' : cache'[x] = cache[x]
           /\ GetAnswers(k) /\ latest[k].expires_at = NoExpiry
                => cresp'.found /\ k \in DOMAIN cache'
           /\ CleanupAnswers /\ latest[k].expires_at = NoExpiry
                => k \in DOMAIN cache']_vars

\* a key set with a TTL that has passed, a get of it that answered not found, and
\* the entry gone from the map while the other key's entry stays
ExpiryHidesValuesWitness ==
    /\ cresp.op = "get"
    /\ ~cresp.found
    /\ cresp.key \in DOMAIN latest
    /\ ~latest[cresp.key].gone
    /\ latest[cresp.key].expires_at # NoExpiry
    /\ latest[cresp.key].expires_at <= ctime
    /\ cresp.key \notin DOMAIN cache
    /\ Cardinality(DOMAIN cache) = 1

\* the stored keys whose tag set contains the tag
Tagged(tag) == {k \in DOMAIN cache : tag \in cache[k].tags}

\* C33: invalidate_by_tag(t) removes every stored entry whose tag set contains t
\* and no other entry, leaves the others as they were, and returns exactly the
\* number of entries it removed.
InvalidationComplete ==
    [][\A tag \in Tags :
         InvalidateAnswers(tag)
           => /\ DOMAIN cache' = DOMAIN cache \ Tagged(tag)
              /\ \A k \in DOMAIN cache' : cache'[k] = cache[k]
              /\ cresp'.count = Cardinality(Tagged(tag))
              /\ cresp'.count = Cardinality(DOMAIN cache)
                                  - Cardinality(DOMAIN cache')]_vars

\* invalidate_by_tag("u") has removed the entry tagged [t, u], returned 1, and
\* left the entry tagged [t] in the map
InvalidationCompleteWitness ==
    /\ cresp.op = "invalidate_by_tag"
    /\ cresp.tag = "u"
    /\ cresp.count = 1
    /\ \E k \in DOMAIN cache : cache[k].tags = {"t"}
    /\ \E j \in DOMAIN latest \ DOMAIN cache :
         latest[j].gone /\ latest[j].tags = {"t", "u"}

\* a step in which delete(k) answers
DeleteAnswers(k) ==
    /\ cresp'.op = "delete"
    /\ cresp'.key = k
    /\ UNCHANGED <<ctime, nsets>>

\* C34: delete(k) removes the entry of k and returns success = true when one is
\* stored, returns success = false and changes nothing when none is stored, never
\* changes the entry of another key; a get(k) that follows with no set of k in
\* between returns found = false.
DeleteRemoves ==
    [][\A k \in CacheKeys :
         /\ DeleteAnswers(k)
              => /\ cresp'.success = (k \in DOMAIN cache)
                 /\ DOMAIN cache' = DOMAIN cache \ {k}
                 /\ \A x \in DOMAIN cache' : cache'[x] = cache[x]
                 /\ k \notin DOMAIN cache => cache' = cache
         /\ GetAnswers(k) /\ k \in DOMAIN latest /\ latest[k].gone
              => ~cresp'.found]_vars

\* delete(k) has removed a stored entry and answered success while the other
\* key's entry stays in the map
DeleteRemovesWitness ==
    /\ cresp.op = "delete"
    /\ cresp.success
    /\ cresp.key \in DOMAIN latest
    /\ latest[cresp.key].gone
    /\ cresp.key \notin DOMAIN cache
    /\ \E x \in DOMAIN cache : cache[x].value = latest[x].value

\* a step in which get_stats answers
StatsAnswers ==
    /\ cresp'.op = "get_stats"
    /\ UNCHANGED <<ctime, nsets>>

\* the stored keys whose expiry has passed and which no get or cleanup has
\* removed yet
StoredExpired ==
    {k \in DOMAIN cache : cache[k].expires_at # NoExpiry /\ cache[k].expires_at <= ctime}

\* C35: get_stats returns total = number of stored entries, expired = number of
\* stored entries with expires_at <= now not yet removed, active = total - expired;
\* total = expired + active, entries without TTL are never counted as expired,
\* and the map is left as it was.
StatsCounts ==
    [][StatsAnswers
         => /\ cresp'.total = Cardinality(DOMAIN cache)
            /\ cresp'.expired = Cardinality(StoredExpired)
            /\ cresp'.active = cresp'.total - cresp'.expired
            /\ cresp'.total = cresp'.expired + cresp'.active
            /\ cresp'.active >= Cardinality({k \in DOMAIN cache :
                                               cache[k].expires_at = NoExpiry})
            /\ cache' = cache]_vars

\* get_stats has answered (2, 1, 1) for a map of one entry past its expiry and one
\* entry without TTL
StatsCountsWitness ==
    /\ cresp.op = "get_stats"
    /\ cresp.total = 2
    /\ cresp.expired = 1
    /\ cresp.active = 1
    /\ Cardinality(StoredExpired) = 1
    /\ \E k \in DOMAIN cache : cache[k].expires_at = NoExpiry

\* C36: an acquire_lock that returns success = false does not modify the stored
\* lock: the holder's lock_id and expiry are unchanged, so a contending acquire
\* never extends, shortens or takes over the current lease.
FailedAcquireKeepsLock ==
    [][\A c \in Clients :
         Returns(c, "acquire") /\ ~resp'[c].success
           => locks' = locks /\ issued' = issued]_vars

\* a client asking for another TTL was refused on a held key, and the store still
\* holds the holder's lock_id with the holder's expiry
FailedAcquireKeepsLockWitness ==
    \E c \in Clients :
        /\ Returned(c, "acquire")
        /\ ~resp[c].success
        /\ \E i \in ActiveOn(req[c].key) :
             /\ issued[i].owner # c
             /\ locks[req[c].key].id = i
             /\ locks[req[c].key].expires = issued[i].expires_at
             /\ issued[i].expires_at - issued[i].acquired_at # req[c].ttl

\* run t attempts a step in this step: execute_step is called and sends its UPDATE
AttemptsStep(t) ==
    /\ tasks[t].pc = "step_update"
    /\ tasks'[t].pc # "step_update"

\* C37: once the compensation of a saga has begun (a run of it has left its step
\* loop with an error) no further step of that saga is attempted, and a saga that
\* reaches Completed has had no compensation invoked.
NoStepAfterCompensation ==
    [][\A s \in 1..MaxSagas :
         /\ (\E t \in TasksOf(s) : StepFailed(t))
               => \A u \in TasksOf(s) : ~AttemptsStep(u)
         /\ ( /\ s \in DOMAIN sagas /\ s \in DOMAIN sagas'
              /\ sagas[s].status # "Completed" /\ sagas'[s].status = "Completed" )
               => \A t \in TasksOf(s) : tasks[t].compensated = <<>>]_vars

\* the same within one run of execute_saga
NoStepAfterCompensationInRun ==
    [][\A t \in DOMAIN tasks :
         /\ StepFailed(t) => ~AttemptsStep(t)
         /\ (tasks[t].pc = "update_completed" /\ tasks'[t].pc = "done"
               /\ tasks'[t].result = "ok") => tasks[t].compensated = <<>>]_vars

\* the calls one at a time: what a call run alone on map m at time t leaves in
\* the map and returns. A set is the call with the entry it built from its
\* request and from the time it read when it was called.
SeqSet(m, k, e) ==
    [map |-> [x \in DOMAIN m \cup {k} |-> IF x = k THEN e ELSE m[x]],
     resp |-> [NoCacheResp EXCEPT !.op = "set", !.key = k, !.found = TRUE,
                                  !.value = e.value]]

SeqExpired(m, t) == {x \in DOMAIN m : m[x].expires_at # NoExpiry /\ m[x].expires_at <= t}

SeqGet(m, k, t) ==
    IF k \in DOMAIN m /\ k \notin SeqExpired(m, t)
    THEN [map |-> m,
          resp |-> [NoCacheResp EXCEPT !.op = "get", !.key = k, !.found = TRUE,
                                       !.value = m[k].value]]
    ELSE [map |-> [x \in DOMAIN m \ {k} |-> m[x]],
          resp |-> [NoCacheResp EXCEPT !.op = "get", !.key = k]]

SeqDelete(m, k) ==
    [map |-> [x \in DOMAIN m \ {k} |-> m[x]],
     resp |-> [NoCacheResp EXCEPT !.op = "delete", !.key = k,
                                  !.success = (k \in DOMAIN m)]]

SeqInvalidate(m, tag) ==
    LET hit == {x \in DOMAIN m : tag \in m[x].tags}
    IN [map |-> [x \in DOMAIN m \ hit |-> m[x]],
        resp |-> [NoCacheResp EXCEPT !.op = "invalidate_by_tag", !.tag = tag,
                                     !.success = TRUE, !.count = Cardinality(hit)]]

SeqCleanup(m, t) ==
    [map |-> [x \in DOMAIN m \ SeqExpired(m, t) |-> m[x]],
     resp |-> [NoCacheResp EXCEPT !.op = "cleanup_expired",
                                  !.count = Cardinality(SeqExpired(m, t))]]

SeqStats(m, t) ==
    [map |-> m,
     resp |-> [NoCacheResp EXCEPT !.op = "get_stats",
                                  !.total = Cardinality(DOMAIN m),
                                  !.expired = Cardinality(SeqExpired(m, t)),
                                  !.active = Cardinality(DOMAIN m)
                                               - Cardinality(SeqExpired(m, t))]]

\* what the calls in flight or callable now would give if run alone on the
\* present map
SeqOutcomes ==
    {SeqSet(cache, c.key, c.entry) : c \in csets}
      \cup {SeqGet(cache, k, ctime) : k \in CacheKeys}
      \cup {SeqDelete(cache, k) : k \in CacheKeys}
      \cup {SeqInvalidate(cache, tag) : tag \in Tags}
      \cup {SeqCleanup(cache, ctime), SeqStats(cache, ctime)}

CheckAnswers(u, p) ==
    /\ rbac_resp' # rbac_resp
    /\ rbac_resp'.op = "check_permission"
    /\ rbac_resp'.user_id = u
    /\ rbac_resp'.permission = p

\* the permissions the definitions of the user's roles carry
RolePermissions(u) == UNION {roles[r] : r \in users[u].roles \cap DOMAIN roles}

\* C40: check_permission(user, p) returns true iff the user exists, is active,
\* and p is among the user's direct permissions or the permissions of one of the
\* user's roles; for a deactivated user it returns false for every permission;
\* it never returns true for a permission granted neither directly nor by a
\* current role.
PermissionCheck ==
    [][\A u \in UserIds, p \in Permissions :
         CheckAnswers(u, p) =>
           /\ rbac_resp'.result =
                 ( /\ u \in DOMAIN users
                   /\ users[u].is_active
                   /\ p \in users[u].permissions \cup RolePermissions(u) )
           /\ (u \in DOMAIN users /\ ~users[u].is_active) => rbac_resp'.result = FALSE
           /\ rbac_resp'.result = TRUE
                 => p \in granted[u] \cup RolePermissions(u)]_vars

\* the same with the built-in table of Role::get_permissions as the permissions
\* of a role
PermissionCheckBuiltIn ==
    [][\A u \in UserIds, p \in Permissions :
         CheckAnswers(u, p) =>
           /\ rbac_resp'.result =
                 ( /\ u \in DOMAIN users
                   /\ users[u].is_active
                   /\ p \in users[u].permissions \cup RoleDefaults(users[u].roles) )
           /\ (u \in DOMAIN users /\ ~users[u].is_active) => rbac_resp'.result = FALSE
           /\ rbac_resp'.result = TRUE
                 => p \in granted[u] \cup RoleDefaults(users[u].roles)]_vars

\* =============================================================== ApiKeyManager
\* C39: validate_api_key always returns: every call of it that was made has
\* eventually returned, with the key record for a key that exists, is active and
\* is not expired, and with None for any other key
ValidateReturns ==
    \A c \in 1..MaxApiCalls :
        (c \in DOMAIN api_calls /\ api_calls[c].op = "validate")
            ~> (c \in DOMAIN api_calls /\ api_calls[c].pc = "done")

====
